---------------------------- MODULE Spec2Model ----------------------------
(***************************************************************************)
(* Model of the kinect skeleton-tracking scripts.  Each script is a batch  *)
(* job with its own specification:                                         *)
(*   SpecCalc     data/calculate-joint-displacements.py                    *)
(*   SpecAlign    data/extract-response-joint-displacements.py             *)
(*   SpecSummary  data/extract-task-switching-skeleton-summary.py          *)
(* A dataframe is a sequence of rows (records); a row's index label is     *)
(* kept in its field "label" where the code distinguishes labels (loc)     *)
(* from positions (iloc).                                                  *)
(*                                                                         *)
(* Numbers.  Coordinates are integers.  A floating point result of         *)
(* np.sqrt or of a mean is held in fixed point, as a count of 1/Scale      *)
(* units, rounded down.  A time in seconds is held as a count of half      *)
(* seconds (ticks): the code's 2.5 s is 5 ticks, its 1.0 s is 2 ticks.     *)
(***************************************************************************)
EXTENDS Integers, Sequences, FiniteSets, TLC

VARIABLES
    pc,                  \* position of the running script
    log,                 \* the messages printed so far (a set of records)
    \* calculate-joint-displacements.py
    raw_kinect_file,     \* rows of the input csv
    joint_df,            \* the dataframe being augmented
    num_samples,
    sample_idx,
    \* extract-response-joint-displacements.py
    response_df,
    current_participant,
    resp_joint_df,       \* joint_df of extract_response_joint_displacements
    data_file,           \* the file resp_joint_df was read from
    joint_df_bound,      \* whether the local name joint_df is bound yet
    row_idx,             \* position of iterrows()
    start_time,          \* start of the window of the latest pass
    window_df,           \* displacement_df as of line 151 (the masked rows)
    displacement_df,     \* displacement_df as of lines 157-166 (the merged rows)
    \* extract-task-switching-skeleton-summary.py
    dir_files,           \* the files of the directory: name -> content
    raw_data_file_list,
    file_idx,            \* position of the for loop over raw_data_file_list
    df,
    initDf,
    \* fix-utctimestamps.py
    input_csv,           \* the file args.input as it was before the run
    csv_file,            \* the file args.input
    fix_df,              \* df of main
    \* deps.py
    stdin,               \* the lines of the document read
    stdout,              \* the lines printed so far
    line_idx             \* position of the for loop over the lines

calcVars == <<raw_kinect_file, joint_df, num_samples, sample_idx>>
alignVars == <<response_df, current_participant, resp_joint_df, data_file,
               joint_df_bound, row_idx, start_time, window_df,
               displacement_df>>
summaryVars == <<dir_files, raw_data_file_list, file_idx, df, initDf>>
fixVars == <<input_csv, csv_file, fix_df>>
depsVars == <<stdin, stdout, line_idx>>
vars == <<pc, log, calcVars, alignVars, summaryVars, fixVars, depsVars>>

---------------------------------------------------------------------------
(* Bounds of the model. *)

\* longest input file of calculate-joint-displacements
MaxSamples == 4
\* most response rows of the response file
MaxResponses == 2
\* fixed point: np.sqrt and mean results are counts of 1/Scale
Scale == 100

---------------------------------------------------------------------------
(* Values shared by the scripts. *)

\* np.NAN, the missing value (every real value of the model is >= 0)
NaN == -1

isnull(v) == v = NaN

joint_list == <<
    "jointHead", "jointNeck", "jointLeftShoulder", "jointRightShoulder",
    "jointLeftElbow", "jointRightElbow", "jointLeftHand", "jointRightHand",
    "jointTorso", "jointLeftHip", "jointRightHip", "jointLeftKnee",
    "jointRightKnee", "jointLeftFoot", "jointRightFoot" >>

JointNames == {joint_list[k] : k \in DOMAIN joint_list}

\* largest r in lo..hi with r * r <= n
RECURSIVE SqrtSearch(_, _, _)
SqrtSearch(n, lo, hi) ==
    IF lo >= hi THEN lo
    ELSE LET mid == (lo + hi + 1) \div 2
         IN  IF mid * mid <= n THEN SqrtSearch(n, mid, hi)
                               ELSE SqrtSearch(n, lo, mid - 1)

\* np.sqrt of an integer, in fixed point
np_sqrt(v) == SqrtSearch(v * Scale * Scale, 0, v * Scale)

RECURSIVE SeqSum(_)
SeqSum(s) == IF s = <<>> THEN 0 ELSE Head(s) + SeqSum(Tail(s))

RECURSIVE SeqMin(_)
SeqMin(s) ==
    IF Len(s) = 1 THEN s[1]
    ELSE LET m == SeqMin(Tail(s)) IN IF s[1] <= m THEN s[1] ELSE m

RECURSIVE SeqMax(_)
SeqMax(s) ==
    IF Len(s) = 1 THEN s[1]
    ELSE LET m == SeqMax(Tail(s)) IN IF s[1] >= m THEN s[1] ELSE m

\* the sum of the series in place of its mean
series_sum(s) == IF s = <<>> THEN NaN ELSE SeqSum(s)

\* Series.mean(), .min(), .max(): NaN for an empty series
series_mean(s) == IF s = <<>> THEN NaN ELSE SeqSum(s) \div Len(s)
series_min(s) == IF s = <<>> THEN NaN ELSE SeqMin(s)
series_max(s) == IF s = <<>> THEN NaN ELSE SeqMax(s)

---------------------------------------------------------------------------
(* Input frames.  A frame gives the x,y,z position of the 15 joints.  The  *)
(* inputs are drawn from three poses of the skeleton: the head is at       *)
(* HeadPos[p], joint k (0-based position in joint_list) is offset from it  *)
(* by an amount that depends on the pose, so that the joints move by       *)
(* different distances between two poses.                                  *)

HeadPos == << <<0, 0, 0>>, <<3, 4, 0>>, <<1, 2, 2>> >>
Poses == DOMAIN HeadPos

JointIndex(joint) == CHOOSE k \in DOMAIN joint_list : joint_list[k] = joint

Frames ==
    [p \in Poses |->
        [joint \in JointNames |->
            LET k == JointIndex(joint) - 1
            IN  << HeadPos[p][1] + ((k * p) % 3),
                   HeadPos[p][2] + (k % 2) * p,
                   HeadPos[p][3] + (k \div 8) >>]]

Frame(p) == Frames[p]

\* The two scripts that aggregate movement read the x,y,z columns of the head
\* and the torso only (the six columns of the "next" dataframe); their rows
\* are modelled with these columns.
TrackedJoints == {"jointHead", "jointTorso"}

TrackedFrames == [p \in Poses |-> [joint \in TrackedJoints |-> Frames[p][joint]]]

TrackedFrame(p) == TrackedFrames[p]

\* the position columns of a row added by enlargement
NaNFrame == [joint \in JointNames |-> <<NaN, NaN, NaN>>]

---------------------------------------------------------------------------
(* calculate-joint-displacements.py *)

DefaultUserId == 1
UserIds == {1, 2}

\* the distance with the z term left out
calculate_euclidian_distance_no_z(prev, curr, joint) ==
    LET prevX == prev.pos[joint][1]
        prevY == prev.pos[joint][2]
        currX == curr.pos[joint][1]
        currY == curr.pos[joint][2]
    IN  np_sqrt( (prevX - currX) * (prevX - currX)
               + (prevY - currY) * (prevY - currY) )

\* displacement = np.sqrt((prevX-currX)**2 + (prevY-currY)**2 + (prevZ-currZ)**2)
calculate_euclidian_distance(prev, curr, joint) ==
    LET prevX == prev.pos[joint][1]
        prevY == prev.pos[joint][2]
        prevZ == prev.pos[joint][3]
        currX == curr.pos[joint][1]
        currY == curr.pos[joint][2]
        currZ == curr.pos[joint][3]
    IN  np_sqrt( (prevX - currX) * (prevX - currX)
               + (prevY - currY) * (prevY - currY)
               + (prevZ - currZ) * (prevZ - currZ) )

\* the dictionary <joint>Displacement -> displacement, over joint_list
calculate_displacements(prev, curr) ==
    [joint \in JointNames |-> calculate_euclidian_distance(prev, curr, joint)]

\* pd.read_csv: the rows of the file under the default index 0, 1, 2, ...
read_csv(rows) ==
    [i \in DOMAIN rows |->
        [label |-> i - 1, userId |-> rows[i].userId, pos |-> rows[i].pos]]

\* joint_df.userId.unique()
unique_users(d) == {d[i].userId : i \in DOMAIN d}

\* joint_df[mask] with mask = (joint_df.userId == 1): rows keep their labels
filter_default_user(d) == SelectSeq(d, LAMBDA r : r.userId = DefaultUserId)

\* joint_df[name] = np.NAN for every <joint>Displacement column
add_displacement_columns(d) ==
    [i \in DOMAIN d |->
        [label |-> d[i].label, userId |-> d[i].userId, pos |-> d[i].pos,
         disp |-> [joint \in JointNames |-> NaN]]]

\* joint_df.iloc[position]: the row at a 0-based position
iloc(d, position) == d[position + 1]

\* joint_df.loc[label, columns] = values: sets the row that carries the
\* label; a label that no row carries is added as a new last row whose
\* other columns are NaN (setting with enlargement)
loc_set(d, label, values) ==
    IF \E i \in DOMAIN d : d[i].label = label
    THEN [i \in DOMAIN d |->
            IF d[i].label = label THEN [d[i] EXCEPT !.disp = values] ELSE d[i]]
    ELSE Append(d, [label |-> label, userId |-> NaN, pos |-> NaNFrame,
                    disp |-> values])

\* lines 61-80: read the file, apply the multi-user fallback, add the columns
CalcLoad ==
    /\ pc = "start"
    /\ LET read == read_csv(raw_kinect_file)
           num_users == Cardinality(unique_users(read))
           kept == IF num_users # 1 THEN filter_default_user(read) ELSE read
       IN  /\ joint_df' = add_displacement_columns(kept)
           /\ num_samples' = Len(kept)
           /\ log' = IF num_users # 1
                     THEN log \cup {[msg |-> "multiple user ids detected"]}
                     ELSE log
    /\ sample_idx' = 1
    /\ pc' = "loop"
    /\ UNCHANGED <<raw_kinect_file, alignVars, summaryVars,
                   fixVars, depsVars>>

\* lines 83-92: one pass of the loop over range(1, num_samples)
CalcStep ==
    /\ pc = "loop"
    /\ sample_idx < num_samples
    /\ LET prev == iloc(joint_df, sample_idx - 1)
           curr == iloc(joint_df, sample_idx)
           displacement_dict == calculate_displacements(prev, curr)
       IN  joint_df' = loc_set(joint_df, sample_idx, displacement_dict)
    /\ sample_idx' = sample_idx + 1
    /\ UNCHANGED <<pc, log, raw_kinect_file, num_samples, alignVars, summaryVars,
                   fixVars, depsVars>>

\* lines 101-105, 196: the loop is over, the dataframe is returned and saved
CalcDone ==
    /\ pc = "loop"
    /\ sample_idx >= num_samples
    /\ pc' = "done"
    /\ UNCHANGED <<log, calcVars, alignVars, summaryVars,
                   fixVars, depsVars>>

RawRows == [userId : UserIds, pos : {Frame(p) : p \in Poses}]

RECURSIVE SeqsUpTo(_, _)
SeqsUpTo(S, n) ==
    IF n = 0 THEN {<<>>}
    ELSE LET shorter == SeqsUpTo(S, n - 1)
         IN  shorter \cup {Append(s, x) : s \in shorter, x \in S}

AlignIdle ==
    /\ response_df = <<>>
    /\ current_participant = 0
    /\ resp_joint_df = <<>>
    /\ data_file = <<>>
    /\ joint_df_bound = FALSE
    /\ row_idx = 0
    /\ start_time = 0
    /\ window_df = <<>>
    /\ displacement_df = <<>>

SummaryIdle ==
    /\ dir_files = <<>>
    /\ raw_data_file_list = <<>>
    /\ file_idx = 0
    /\ df = <<>>
    /\ initDf = TRUE

CalcIdle ==
    /\ raw_kinect_file = <<>>
    /\ joint_df = <<>>
    /\ num_samples = 0
    /\ sample_idx = 0

FixIdle ==
    /\ input_csv = <<>>
    /\ csv_file = <<>>
    /\ fix_df = <<>>

DepsIdle ==
    /\ stdin = <<>>
    /\ stdout = <<>>
    /\ line_idx = 0

InitCalc ==
    /\ pc = "start"
    /\ log = {}
    /\ raw_kinect_file \in SeqsUpTo(RawRows, MaxSamples)
    /\ joint_df = <<>>
    /\ num_samples = 0
    /\ sample_idx = 0
    /\ AlignIdle
    /\ SummaryIdle
    /\ FixIdle
    /\ DepsIdle

NextCalc == CalcLoad \/ CalcStep \/ CalcDone

SpecCalc == InitCalc /\ [][NextCalc]_vars

---------------------------------------------------------------------------
(* extract-response-joint-displacements.py *)

\* 2.5 s, the window of a response with no reaction time, in ticks
TimeoutWindow == 5
\* 1.0 s, the delay from cue to prompt, in ticks
CueDelay == 2
\* joint_df.utcMillisecondsSinceEpoch / 1000.0 gives seconds: 500 ms a tick
MillisPerTick == 500

\* The data directory: the joint files that exist, named by the participant
\* id of their "%04d_" prefix and a session suffix.  Participant 1 has one
\* file, participant 2 has two, participant 0 has none.
JointFiles == {
    [participant |-> 1, session |-> 1],
    [participant |-> 2, session |-> 1],
    [participant |-> 2, session |-> 2] }

ResponseParticipants == {0, 1, 2}

\* the samples of a joint file: one each half second from 2.0 s to 4.5 s,
\* in time order, the poses depending on the file
FirstSampleTick == 4
SamplesPerFile == 6

JointFileTable ==
    [file \in JointFiles |->
        [k \in 1..SamplesPerFile |->
            [utcMillisecondsSinceEpoch |-> (FirstSampleTick + k - 1) * MillisPerTick,
             pos |-> TrackedFrame(((k * (file.participant + 1)
                                    + (k \div 2) * file.session) % 3) + 1)]]]

JointFileRows(file) == JointFileTable[file]

\* glob.glob(data_dir + "/%04d_task-switching-replication_*.csv" % participant)
glob_joint_files(participant) == {f \in JointFiles : f.participant = participant}

\* lines 58-64: read the file and add utcTime, the time stamp in seconds
get_joint_df(file) ==
    LET rows == JointFileRows(file)
    IN  [i \in DOMAIN rows |->
            [utcMillisecondsSinceEpoch |-> rows[i].utcMillisecondsSinceEpoch,
             utcTime |-> rows[i].utcMillisecondsSinceEpoch \div MillisPerTick,
             pos |-> rows[i].pos]]

\* np.sqrt of the squared differences of a joint's position and its next one
compute_distance(row, joint) ==
    LET a == row.pos[joint]
        b == row.next[joint]
    IN  np_sqrt( (a[1] - b[1]) * (a[1] - b[1]) + (a[2] - b[2]) * (a[2] - b[2])
               + (a[3] - b[3]) * (a[3] - b[3]) )

compute_distance_head(row) == compute_distance(row, "jointHead")
compute_distance_torso(row) == compute_distance(row, "jointTorso")

\* the window start with 1.5 s, the timeout, taken as the missing reaction
\* time but the cue delay left out
window_start_no_delay(response) ==
    IF isnull(response.reactionTime)
    THEN response.utcTime - (TimeoutWindow - CueDelay)
    ELSE response.utcTime - response.reactionTime - CueDelay

\* lines 142-146
window_start(response) ==
    IF isnull(response.reactionTime)
    THEN response.utcTime - TimeoutWindow
    ELSE response.utcTime - response.reactionTime - CueDelay

\* the mask with the response time itself left out
mask_window_open(joint, start, response_time) ==
    SelectSeq(joint, LAMBDA r : r.utcTime >= start /\ r.utcTime < response_time)

\* lines 149-151: the rows of joint_df inside the closed window
mask_window(joint, start, response_time) ==
    SelectSeq(joint, LAMBDA r : r.utcTime >= start /\ r.utcTime <= response_time)

\* the merge keeping the last row of the window, paired with itself
merge_next_keep_last(window) ==
    [i \in DOMAIN window |->
        [utcTime |-> window[i].utcTime, pos |-> window[i].pos,
         next |-> window[IF i < Len(window) THEN i + 1 ELSE i].pos]]

\* lines 155-157: each row of the window merged on the index with the row
\* that follows it; the last row has no partner and is dropped by the merge
merge_next(window) ==
    [i \in 1..(IF window = <<>> THEN 0 ELSE Len(window) - 1) |->
        [utcTime |-> window[i].utcTime, pos |-> window[i].pos,
         next |-> window[i + 1].pos]]

\* lines 165-166: the two displacement columns of the merged rows
add_displacements(merged) ==
    [i \in DOMAIN merged |->
        [utcTime |-> merged[i].utcTime, pos |-> merged[i].pos,
         next |-> merged[i].next,
         jointHeadDisplacement |-> compute_distance_head(merged[i]),
         jointTorsoDisplacement |-> compute_distance_torso(merged[i])]]

Column(d, name) == [i \in DOMAIN d |-> d[i][name]]

\* lines 169-171: response_df.loc[mask, column] = mean with
\* mask = (response_df.utcTime == response_time)
write_aggregate(responses, response_time, head, torso) ==
    [r \in DOMAIN responses |->
        IF responses[r].utcTime = response_time
        THEN [responses[r] EXCEPT !.jointHeadDisplacement = head,
                                  !.jointTorsoDisplacement = torso]
        ELSE responses[r]]

NoKinectData(response) ==
    [msg |-> "no kinect data found", participant |-> response.participant,
     utcTime |-> response.utcTime]

FileNotUnique(participant) ==
    [msg |-> "did not find expected file or got multiple files",
     participant |-> participant]

\* lines 138-171 of one pass of the loop, with the joint data in use;
\* printed is what the pass has printed before line 138
align_response(response, joint, printed) ==
    LET response_time == response.utcTime
        start == window_start(response)
        window == mask_window(joint, start, response_time)
        merged == merge_next(window)
        displaced == add_displacements(merged)
    IN  /\ start_time' = start
        /\ window_df' = window
        /\ IF Len(merged) = 0
           THEN /\ displacement_df' = merged
                /\ log' = printed \cup {NoKinectData(response)}
                /\ response_df' = response_df
           ELSE /\ displacement_df' = displaced
                /\ log' = printed
                /\ response_df' = write_aggregate(response_df, response_time,
                      series_mean(Column(displaced, "jointHeadDisplacement")),
                      series_mean(Column(displaced, "jointTorsoDisplacement")))
        /\ row_idx' = row_idx + 1

\* a pass for a row of another participant than the current one: the joint
\* file is looked up and loaded (lines 129-132, 48-64), then the row aligned.
\* glob returns the matching files in no defined order, file_list[0] is any.
AlignRowLoad ==
    /\ pc = "loop"
    /\ row_idx <= Len(response_df)
    /\ LET response == response_df[row_idx]
           file_list == glob_joint_files(response.participant)
       IN  /\ response.participant # current_participant
           /\ \E file \in file_list :
                /\ current_participant' = response.participant
                /\ data_file' = file
                /\ resp_joint_df' = get_joint_df(file)
                /\ joint_df_bound' = TRUE
                /\ align_response(response, get_joint_df(file),
                      IF Cardinality(file_list) # 1
                      THEN log \cup {FileNotUnique(response.participant)}
                      ELSE log)
    /\ UNCHANGED <<pc, calcVars, summaryVars,
                   fixVars, depsVars>>

\* the same with no matching file: the message is printed and file_list[0]
\* (line 55) raises IndexError, which nothing catches
AlignRowIndexError ==
    /\ pc = "loop"
    /\ row_idx <= Len(response_df)
    /\ LET response == response_df[row_idx]
       IN  /\ response.participant # current_participant
           /\ glob_joint_files(response.participant) = {}
           /\ current_participant' = response.participant
           /\ log' = log \cup {FileNotUnique(response.participant)}
    /\ pc' = "IndexError"
    /\ UNCHANGED <<response_df, resp_joint_df, data_file, joint_df_bound,
                   row_idx, start_time, window_df, displacement_df,
                   calcVars, summaryVars,
                   fixVars, depsVars>>

\* a pass for a row of the current participant, with joint_df bound
AlignRowSame ==
    /\ pc = "loop"
    /\ row_idx <= Len(response_df)
    /\ response_df[row_idx].participant = current_participant
    /\ joint_df_bound
    /\ align_response(response_df[row_idx], resp_joint_df, log)
    /\ UNCHANGED <<pc, current_participant, resp_joint_df, data_file,
                   joint_df_bound, calcVars, summaryVars,
                   fixVars, depsVars>>

\* a pass for a row of the current participant before any file was loaded
\* (a first row of participant 0): joint_df is unbound at line 149
AlignRowNameError ==
    /\ pc = "loop"
    /\ row_idx <= Len(response_df)
    /\ response_df[row_idx].participant = current_participant
    /\ ~joint_df_bound
    /\ pc' = "NameError"
    /\ UNCHANGED <<log, alignVars, calcVars, summaryVars,
                   fixVars, depsVars>>

\* line 173, 198-199: every row was visited, response_df is returned and saved
AlignDone ==
    /\ pc = "loop"
    /\ row_idx > Len(response_df)
    /\ pc' = "done"
    /\ UNCHANGED <<log, alignVars, calcVars, summaryVars,
                   fixVars, depsVars>>

UtcTimes == {8, 10, 14}
ReactionTimes == {NaN, 0, 1, 3}

\* lines 118-122: the response rows as read, with the two added columns at 0.0
ResponseRows ==
    [participant : ResponseParticipants, utcTime : UtcTimes,
     reactionTime : ReactionTimes,
     jointHeadDisplacement : {0}, jointTorsoDisplacement : {0}]

\* the state at line 127, before the first pass of the loop
InitAlign ==
    /\ pc = "loop"
    /\ log = {}
    /\ response_df \in SeqsUpTo(ResponseRows, MaxResponses)
    /\ current_participant = 0
    /\ resp_joint_df = <<>>
    /\ data_file = <<>>
    /\ joint_df_bound = FALSE
    /\ row_idx = 1
    /\ start_time = 0
    /\ window_df = <<>>
    /\ displacement_df = <<>>
    /\ CalcIdle
    /\ SummaryIdle
    /\ FixIdle
    /\ DepsIdle

NextAlign ==
    \/ AlignRowLoad
    \/ AlignRowIndexError
    \/ AlignRowSame
    \/ AlignRowNameError
    \/ AlignDone

SpecAlign == InitAlign /\ [][NextAlign]_vars

---------------------------------------------------------------------------
(* extract-task-switching-skeleton-summary.py *)
(* A file name is a sequence of characters (one-character strings).        *)

\* the characters of the file names, in code point order
Chars == << ".", "/", "0", "1", "2", "3", "4", "5", "6", "7", "8", "9", "_",
            "a", "b", "c", "d", "e", "f", "g", "h", "i", "j", "k", "l", "m",
            "n", "o", "p", "q", "r", "s", "t", "u", "v", "w", "x", "y", "z" >>

Ord(c) == CHOOSE i \in DOMAIN Chars : Chars[i] = c

Digits == <<"0", "1", "2", "3", "4", "5", "6", "7", "8", "9">>
IsDigit(c) == \E i \in DOMAIN Digits : Digits[i] = c
DigitValue(c) == (CHOOSE i \in DOMAIN Digits : Digits[i] = c) - 1

data_dir == <<".">>
csv_suffix == <<".", "c", "s", "v">>

\* the str order of Python: the first differing character decides, a proper
\* prefix is smaller
RECURSIVE str_less(_, _)
str_less(a, b) ==
    IF b = <<>> THEN FALSE
    ELSE IF a = <<>> THEN TRUE
    ELSE IF a[1] # b[1] THEN Ord(a[1]) < Ord(b[1])
    ELSE str_less(Tail(a), Tail(b))

\* the list in descending order
RECURSIVE sorted_descending(_)
sorted_descending(S) ==
    IF S = {} THEN <<>>
    ELSE LET greatest == CHOOSE x \in S : \A y \in S : x = y \/ str_less(y, x)
         IN  <<greatest>> \o sorted_descending(S \ {greatest})

\* list.sort() of a list holding the strings of S
RECURSIVE sorted(_)
sorted(S) ==
    IF S = {} THEN <<>>
    ELSE LET least == CHOOSE x \in S : \A y \in S : x = y \/ str_less(x, y)
         IN  <<least>> \o sorted(S \ {least})

\* sub in s
contains(s, sub) ==
    \E i \in 0..(Len(s) - Len(sub)) : SubSeq(s, i + 1, i + Len(sub)) = sub

\* the path taken for its own base name
basename_whole_path(path) == path

\* os.path.basename: what follows the last "/"
basename(path) ==
    LET slashes == {i \in DOMAIN path : path[i] = "/"}
    IN  IF slashes = {} THEN path
        ELSE SubSeq(path, (CHOOSE i \in slashes : \A j \in slashes : j <= i) + 1,
                    Len(path))

\* s.split(sep)[0]: what precedes the first sep
split_first(s, sep) ==
    LET at == {i \in DOMAIN s : s[i] = sep}
    IN  IF at = {} THEN s
        ELSE SubSeq(s, 1, (CHOOSE i \in at : \A j \in at : i <= j) - 1)

\* int() of a string of decimal digits
RECURSIVE int(_)
int(s) ==
    IF s = <<>> THEN 0
    ELSE 10 * int(SubSeq(s, 1, Len(s) - 1)) + DigitValue(s[Len(s)])

\* whether a file name matches "[0-9][0-9][0-9][0-9]_*_*_*_*_*" + ".csv"
fnmatch(name) ==
    /\ Len(name) >= 9 + Len(csv_suffix)
    /\ \A i \in 1..4 : IsDigit(name[i])
    /\ name[5] = "_"
    /\ SubSeq(name, Len(name) - Len(csv_suffix) + 1, Len(name)) = csv_suffix
    /\ Cardinality({i \in 6..(Len(name) - Len(csv_suffix)) : name[i] = "_"}) >= 4

\* glob.glob(data_dir + "/" + file_pattern + ".csv"): the matching paths
glob_raw_data(files) ==
    {data_dir \o <<"/">> \o name : name \in {n \in DOMAIN files : fnmatch(n)}}

\* the test of line 139 with the word never found
is_trials_never(raw_data_file) == FALSE

\* 'trials' in raw_data_file
is_trials(raw_data_file) == contains(raw_data_file, <<"t", "r", "i", "a", "l", "s">>)

\* the file names the directory may hold, each with the participant id it
\* was recorded for and what it is
FileName(id, tag) ==
    id \o <<"_">> \o tag \o <<"_", "a", "_", "b", "_", "c", "_", "d">> \o csv_suffix

Catalogue == {
    [name |-> FileName(<<"0", "0", "0", "1">>, <<"s">>), participant |-> 1,
     skeleton |-> TRUE],
    [name |-> FileName(<<"0", "0", "0", "1">>, <<"r">>), participant |-> 1,
     skeleton |-> TRUE],
    [name |-> FileName(<<"0", "0", "0", "2">>, <<"s">>), participant |-> 2,
     skeleton |-> TRUE],
    [name |-> FileName(<<"0", "0", "0", "2">>, <<"t", "r", "i", "a", "l", "s">>),
     participant |-> 2, skeleton |-> FALSE],
    [name |-> FileName(<<"0", "0", "1", "0">>, <<"s">>), participant |-> 10,
     skeleton |-> TRUE],
    [name |-> <<"n", "o", "t", "e", "s">> \o csv_suffix, participant |-> 0,
     skeleton |-> FALSE] }

\* the rows of a file of content c: c + 1 samples a tenth of a second apart
SummaryContents == {0, 2, 3}

SummaryTable ==
    [c \in SummaryContents |->
        [k \in 1..(c + 1) |->
            [utcMillisecondsSinceEpoch |-> (10 * c + k) * 100,
             pos |-> TrackedFrame(((k * c + k \div 2) % 3) + 1)]]]

SummaryRows(c) == SummaryTable[c]

\* pd.to_datetime(t, unit='ms'): the instant, with no time zone
to_datetime(ms) == [instant |-> ms, tz |-> "naive"]

\* .dt.tz_localize('UTC').dt.tz_convert('America/Chicago'): the same instant
tz_convert(d) ==
    [i \in DOMAIN d |->
        [d[i] EXCEPT !.startDate = [instant |-> d[i].startDate.instant,
                                    tz |-> "America/Chicago"],
                     !.endDate = [instant |-> d[i].endDate.instant,
                                  tz |-> "America/Chicago"]]]

\* line 146: int(os.path.basename(raw_data_file).split('_')[0])
subject_id(raw_data_file) == int(split_first(basename(raw_data_file), "_"))

\* the first timestamp whatever the label
timestamp_first(subject_df, label) ==
    subject_df[1].utcMillisecondsSinceEpoch

\* lines 152, 154: subject_df.utcMillisecondsSinceEpoch[label]; read_csv
\* labels the rows 0, 1, ... in file order
timestamp_at(subject_df, label) ==
    subject_df[label + 1].utcMillisecondsSinceEpoch

\* lines 144-187: the summary row of one file
subject_dict(raw_data_file) ==
    LET subject_df == SummaryRows(dir_files[basename(raw_data_file)])
        n == Len(subject_df)
        start == timestamp_at(subject_df, 0)
        end == timestamp_at(subject_df, n - 1)
        merged == add_displacements(
                     [i \in 1..(n - 1) |->
                        [utcTime |-> subject_df[i].utcMillisecondsSinceEpoch,
                         pos |-> subject_df[i].pos,
                         next |-> subject_df[i + 1].pos]])
        head == Column(merged, "jointHeadDisplacement")
        torso == Column(merged, "jointTorsoDisplacement")
    IN  [subjectId |-> subject_id(raw_data_file),
         samples |-> n,
         startTime |-> start,
         startDate |-> to_datetime(start),
         endTime |-> end,
         endDate |-> to_datetime(end),
         minHeadDisplacement |-> series_min(head),
         maxHeadDisplacement |-> series_max(head),
         meanHeadDisplacement |-> series_mean(head),
         minTorsoDisplacement |-> series_min(torso),
         maxTorsoDisplacement |-> series_max(torso),
         meanTorsoDisplacement |-> series_mean(torso)]

\* lines 129-136: the matching files, sorted
SummaryGlob ==
    /\ pc = "start"
    /\ raw_data_file_list' = sorted(glob_raw_data(dir_files))
    /\ file_idx' = 1
    /\ initDf' = TRUE
    /\ df' = <<>>
    /\ pc' = "loop"
    /\ UNCHANGED <<log, dir_files, calcVars, alignVars,
                   fixVars, depsVars>>

\* lines 137-140: a file of trial information is passed over
SummarySkip ==
    /\ pc = "loop"
    /\ file_idx <= Len(raw_data_file_list)
    /\ is_trials(raw_data_file_list[file_idx])
    /\ file_idx' = file_idx + 1
    /\ UNCHANGED <<pc, log, dir_files, raw_data_file_list, df, initDf,
                   calcVars, alignVars,
                   fixVars, depsVars>>

\* lines 142-193: a skeleton file is summarised and its row appended
SummaryFile ==
    /\ pc = "loop"
    /\ file_idx <= Len(raw_data_file_list)
    /\ ~is_trials(raw_data_file_list[file_idx])
    /\ df' = IF initDf THEN <<subject_dict(raw_data_file_list[file_idx])>>
             ELSE Append(df, subject_dict(raw_data_file_list[file_idx]))
    /\ initDf' = FALSE
    /\ log' = log \cup {[msg |-> "processing file",
                         file |-> raw_data_file_list[file_idx]]}
    /\ file_idx' = file_idx + 1
    /\ UNCHANGED <<pc, dir_files, raw_data_file_list, calcVars, alignVars,
                   fixVars, depsVars>>

\* lines 160-163 for a file of one sample: the merge of line 162 leaves no
\* row and DataFrame.apply of an empty frame returns a frame, not a column;
\* depending on the pandas in use the assignment of line 163 raises
\* ValueError, or the run goes on (SummaryFile) with statistics of no value
SummaryFileValueError ==
    /\ pc = "loop"
    /\ file_idx <= Len(raw_data_file_list)
    /\ ~is_trials(raw_data_file_list[file_idx])
    /\ Len(SummaryRows(dir_files[basename(raw_data_file_list[file_idx])])) <= 1
    /\ log' = log \cup {[msg |-> "processing file",
                         file |-> raw_data_file_list[file_idx]]}
    /\ pc' = "ValueError"
    /\ UNCHANGED <<summaryVars, calcVars, alignVars,
                   fixVars, depsVars>>

\* lines 195-200, 226: the dates are localized, the summary returned and saved
SummaryDone ==
    /\ pc = "loop"
    /\ file_idx > Len(raw_data_file_list)
    /\ ~initDf
    /\ df' = tz_convert(df)
    /\ pc' = "done"
    /\ UNCHANGED <<log, dir_files, raw_data_file_list, file_idx, initDf,
                   calcVars, alignVars,
                   fixVars, depsVars>>

\* the same when no file was summarised: df is None and df.startDate
\* (line 197) raises AttributeError
SummaryDoneNone ==
    /\ pc = "loop"
    /\ file_idx > Len(raw_data_file_list)
    /\ initDf
    /\ pc' = "AttributeError"
    /\ UNCHANGED <<log, summaryVars, calcVars, alignVars,
                   fixVars, depsVars>>

\* the directory holds any of the catalogue's files, each with any content
InitSummary ==
    /\ pc = "start"
    /\ log = {}
    /\ \E present \in SUBSET {c.name : c \in Catalogue} :
          dir_files \in [present -> SummaryContents]
    /\ raw_data_file_list = <<>>
    /\ file_idx = 0
    /\ df = <<>>
    /\ initDf = TRUE
    /\ CalcIdle
    /\ AlignIdle
    /\ FixIdle
    /\ DepsIdle

NextSummary ==
    \/ SummaryGlob
    \/ SummarySkip
    \/ SummaryFile
    \/ SummaryFileValueError
    \/ SummaryDone
    \/ SummaryDoneNone

SpecSummary == InitSummary /\ [][NextSummary]_vars

---------------------------------------------------------------------------
(* Line 146 of extract-task-switching-skeleton-summary.py on its own: the  *)
(* participant id of a path.  A path is drawn as a directory part, four    *)
(* digits, an underscore and the rest of the name; raw_data_file_list      *)
(* holds the path and df receives the id.                                  *)

ParseDirs == { <<>>,
               <<".", "/">>,
               <<"d", "a", "t", "a", "/", "r", "a", "w", "/">>,
               <<"1", "2", "_", "3", "/", "4", "5", "_", "x", "/">> }

\* the digits a zero-padded id is drawn from
ParseDigits == {0, 1, 7}

ParseTails == { <<"s", "o", "m", "e", "t", "h", "i", "n", "g", "-",
                  "j", "o", "i", "n", "t", "-",
                  "p", "o", "s", "i", "t", "i", "o", "n", "s", "-",
                  "d", "i", "s", "p", "l", "a", "c", "e", "m", "e", "n", "t",
                  "s">> \o csv_suffix,
                <<"2", "_", "a", "_", "b", "_", "c", "_", "9", "9">>
                  \o csv_suffix }

ParseCases ==
    [dir : ParseDirs, digits : [1..4 -> ParseDigits], tail : ParseTails]

ParsePath(c) ==
    c.dir \o [i \in 1..4 |-> Digits[c.digits[i] + 1]] \o <<"_">> \o c.tail

InitParse ==
    /\ pc = "parse"
    /\ log = {}
    /\ dir_files = <<>>
    /\ \E c \in ParseCases : raw_data_file_list = <<ParsePath(c)>>
    /\ file_idx = 1
    /\ df = <<>>
    /\ initDf = TRUE
    /\ CalcIdle
    /\ AlignIdle
    /\ FixIdle
    /\ DepsIdle

\* line 146; int() raises ValueError for a string that is not a numeral
ParseSubjectId ==
    /\ pc = "parse"
    /\ LET raw_data_file == raw_data_file_list[file_idx]
           numeral == split_first(basename(raw_data_file), "_")
       IN  IF numeral # <<>> /\ \A i \in DOMAIN numeral : IsDigit(numeral[i])
           THEN /\ df' = <<[subjectId |-> subject_id(raw_data_file)]>>
                /\ pc' = "parsed"
           ELSE /\ df' = df
                /\ pc' = "ValueError"
    /\ UNCHANGED <<log, dir_files, raw_data_file_list, file_idx, initDf,
                   calcVars, alignVars,
                   fixVars, depsVars>>

NextParse == ParseSubjectId

SpecParse == InitParse /\ [][NextParse]_vars

---------------------------------------------------------------------------
(* fix-utctimestamps.py *)
(* A csv file is a header, the names of its columns, and rows of cells.  A *)
(* cell is the text between two commas: a sequence of characters.  A       *)
(* number is held as its whole part and the digits of its fraction, with   *)
(* no trailing zero, so that 0.5 and 0.50 are one number.                  *)

\* most rows of the file
MaxFixRows == 2
\* line 47: microseconds of a millisecond
MicrosPerMilli == 1000

\* the missing value of a column of numbers
MissingValue == [whole |-> NaN, frac |-> <<>>]
is_missing(value) == isnull(value.whole)

IsNumeral(text) ==
    text # <<>> /\ \A i \in DOMAIN text : IsDigit(text[i])

\* what follows the first sep of s, nothing when s has none
after_first(s, sep) ==
    LET at == {i \in DOMAIN s : s[i] = sep}
    IN  IF at = {} THEN <<>>
        ELSE SubSeq(s, (CHOOSE i \in at : \A j \in at : i <= j) + 1, Len(s))

RECURSIVE strip_zeros(_)
strip_zeros(digits) ==
    IF digits = <<>> THEN <<>>
    ELSE IF digits[Len(digits)] = 0
         THEN strip_zeros(SubSeq(digits, 1, Len(digits) - 1))
         ELSE digits

\* the number a cell text writes; an empty cell is a missing value
cell_value(text) ==
    IF text = <<>> THEN MissingValue
    ELSE LET fraction == after_first(text, ".")
         IN  [whole |-> int(split_first(text, ".")),
              frac |-> strip_zeros([i \in DOMAIN fraction |->
                                       DigitValue(fraction[i])])]

\* the dtype read_csv gives a column of numbers: int64 when every cell is
\* an integer numeral, float64 otherwise
column_dtype(cells) ==
    IF \A i \in DOMAIN cells : IsNumeral(cells[i]) THEN "int64" ELSE "float64"

\* line 34: pd.read_csv(data_file), the first line taken as the header
fix_read_csv(file) ==
    [columns |-> file.header,
     dtypes |-> [j \in DOMAIN file.header |->
                   column_dtype([i \in DOMAIN file.rows |-> file.rows[i][j]])],
     rows |-> [i \in DOMAIN file.rows |->
                 [j \in DOMAIN file.header |-> cell_value(file.rows[i][j])]]]

\* line 40: df.rename(columns=feature_map)
rename(d, from, to) ==
    [d EXCEPT !.columns = [j \in DOMAIN d.columns |->
                              IF d.columns[j] = from THEN to
                              ELSE d.columns[j]]]

has_column(d, name) == \E j \in DOMAIN d.columns : d.columns[j] = name

\* value * 1000: the decimal point moves three places
times_thousand(value) ==
    IF is_missing(value) THEN MissingValue
    ELSE LET f == value.frac \o <<0, 0, 0>>
         IN  [whole |-> value.whole * MicrosPerMilli
                          + 100 * f[1] + 10 * f[2] + f[3],
              frac |-> strip_zeros(SubSeq(value.frac, 4, Len(value.frac)))]

\* line 47: df[name] = df[name] * 1000
multiply_column(d, name) ==
    [d EXCEPT !.rows = [i \in DOMAIN d.rows |->
                          [j \in DOMAIN d.columns |->
                              IF d.columns[j] = name
                              THEN times_thousand(d.rows[i][j])
                              ELSE d.rows[i][j]]]]

\* str() of a natural number
RECURSIVE str_int(_)
str_int(n) ==
    IF n < 10 THEN <<Digits[n + 1]>>
    ELSE str_int(n \div 10) \o <<Digits[(n % 10) + 1]>>

\* the text to_csv writes for a value: an integer as its digits, a float
\* with its fraction and at least one digit of it, a missing value as
\* nothing
cell_text(value, dtype) ==
    IF is_missing(value) THEN <<>>
    ELSE IF dtype = "int64" THEN str_int(value.whole)
    ELSE str_int(value.whole) \o <<".">>
           \o (IF value.frac = <<>> THEN <<"0">>
               ELSE [i \in DOMAIN value.frac |-> Digits[value.frac[i] + 1]])

\* df.to_csv(output_file) with the index written as a first column
to_csv_with_index(d) ==
    [header |-> <<"">> \o d.columns,
     rows |-> [i \in DOMAIN d.rows |->
                 <<str_int(i - 1)>> \o
                 [j \in DOMAIN d.columns |->
                     cell_text(d.rows[i][j], d.dtypes[j])]]]

\* line 57: df.to_csv(output_file, index=False)
to_csv(d) ==
    [header |-> d.columns,
     rows |-> [i \in DOMAIN d.rows |->
                 [j \in DOMAIN d.columns |->
                     cell_text(d.rows[i][j], d.dtypes[j])]]]

\* lines 25-50
fix_utc_timestamps(file) ==
    multiply_column(rename(fix_read_csv(file), "utcMillisecondsSinceEpoch",
                           "utcMicrosecondsSinceEpoch"),
                    "utcMicrosecondsSinceEpoch")

\* line 70: the file is read and the column renamed and multiplied
FixLoad ==
    /\ pc = "start"
    /\ has_column(rename(fix_read_csv(csv_file), "utcMillisecondsSinceEpoch",
                         "utcMicrosecondsSinceEpoch"),
                  "utcMicrosecondsSinceEpoch")
    /\ fix_df' = fix_utc_timestamps(csv_file)
    /\ pc' = "loaded"
    /\ UNCHANGED <<log, input_csv, csv_file, calcVars, alignVars, summaryVars,
                   depsVars>>

\* line 47 for a file with neither column: df.utcMicrosecondsSinceEpoch
\* raises AttributeError and the file is left as it was
FixLoadAttributeError ==
    /\ pc = "start"
    /\ ~has_column(rename(fix_read_csv(csv_file), "utcMillisecondsSinceEpoch",
                          "utcMicrosecondsSinceEpoch"),
                   "utcMicrosecondsSinceEpoch")
    /\ pc' = "AttributeError"
    /\ UNCHANGED <<log, fixVars, calcVars, alignVars, summaryVars, depsVars>>

\* line 71: the dataframe is written over the input file
FixSave ==
    /\ pc = "loaded"
    /\ csv_file' = to_csv(fix_df)
    /\ pc' = "saved"
    /\ UNCHANGED <<log, input_csv, fix_df, calcVars, alignVars, summaryVars,
                   depsVars>>

\* the files: a user id, a timestamp and a joint coordinate in each row
FixTimestampColumns ==
    {"utcMillisecondsSinceEpoch", "utcMicrosecondsSinceEpoch", "utcTime"}

FixRowTexts ==
    { <<u, t, x>> : u \in { <<"1">>, <<"2">> },
                    t \in { <<>>, <<"5">>, <<"1", "2">> },
                    x \in { <<"0", ".", "5">>, <<"0", ".", "5", "0">>,
                            <<"2">> } }

InitFix ==
    /\ pc = "start"
    /\ log = {}
    /\ \E t \in FixTimestampColumns :
       \E rows \in SeqsUpTo(FixRowTexts, MaxFixRows) :
          input_csv = [header |-> <<"userId", t, "jointHeadX">>, rows |-> rows]
    /\ csv_file = input_csv
    /\ fix_df = <<>>
    /\ CalcIdle
    /\ AlignIdle
    /\ SummaryIdle
    /\ DepsIdle

NextFix ==
    \/ FixLoad
    \/ FixLoadAttributeError
    \/ FixSave

SpecFix == InitFix /\ [][NextFix]_vars

---------------------------------------------------------------------------
(* deps.py *)
(* The document is a sequence of lines.  A line is written as a sequence   *)
(* of pieces (names of the table DepsPieces); its text, the sequence of    *)
(* characters the regular expressions see, is the pieces' texts joined.    *)
(* The text is taken without its line end, which '.' does not match and    *)
(* before which '$' matches.                                               *)

\* most lines of the document
MaxLines == 2

\* args.dep
dep == <<"d", "o", "c">>

figures_slash == <<"f", "i", "g", "u", "r", "e", "s", "/">>
dot_png == <<".", "p", "n", "g">>
dot_bib == <<".", "b", "i", "b">>
bibliography_brace ==
    <<"b", "i", "b", "l", "i", "o", "g", "r", "a", "p", "h", "y", "{">>

\* the pieces lines are written with: the text, and the figure references
\* and the bibliography names the piece holds
DepsPieces ==
    [ see   |-> [text |-> <<"s", "e", "e", " ">>,
                 figures |-> <<>>, names |-> <<>>],
      close |-> [text |-> <<"}">>, figures |-> <<>>, names |-> <<>>],
      fig_a |-> [text |-> figures_slash \o <<"a">> \o dot_png,
                 figures |-> <<figures_slash \o <<"a">> \o dot_png>>,
                 names |-> <<>>],
      fig_b |-> [text |-> <<"{">> \o figures_slash \o <<"b", "/", "c">>
                            \o dot_png \o <<"}">>,
                 figures |-> <<figures_slash \o <<"b", "/", "c">> \o dot_png>>,
                 names |-> <<>>],
      bib_r |-> [text |-> <<"\\">> \o bibliography_brace \o <<"r", "}">>,
                 figures |-> <<>>,
                 names |-> << <<"r">> >>],
      bib_s |-> [text |-> <<"\\">> \o bibliography_brace
                            \o <<"r", ",", " ", "s">> \o dot_bib \o <<"}">>,
                 figures |-> <<>>,
                 names |-> << <<"r">>, <<"s">> \o dot_bib >>] ]

PieceNames == DOMAIN DepsPieces

\* a line: no piece, one or two
DepsLines ==
    {<<>>} \cup {<<a>> : a \in PieceNames}
           \cup {<<a, b>> : a \in PieceNames, b \in PieceNames}

RECURSIVE line_text(_)
line_text(pieces) ==
    IF pieces = <<>> THEN <<>>
    ELSE DepsPieces[Head(pieces)].text \o line_text(Tail(pieces))

occurs_at(s, pattern, p) ==
    /\ p + Len(pattern) - 1 <= Len(s)
    /\ SubSeq(s, p, p + Len(pattern) - 1) = pattern

Greatest(S) == CHOOSE x \in S : \A y \in S : y <= x

\* lines 15, 20: pfigs.match(line) for '^.*(figures/.*\.png).*$'.  Both .*
\* are greedy: the first gives back as little as it can, so the group
\* starts at the last "figures/" that has a ".png" after it, and the .* of
\* the group runs to the last ".png" of the line
pfigs(line) ==
    LET ends(p) == {q \in (p + Len(figures_slash))..Len(line) :
                       occurs_at(line, dot_png, q)}
        starts == {p \in DOMAIN line :
                       occurs_at(line, figures_slash, p) /\ ends(p) # {}}
    IN  IF starts = {} THEN [matched |-> FALSE, group |-> <<>>]
        ELSE LET p == Greatest(starts)
                 q == Greatest(ends(p))
             IN  [matched |-> TRUE,
                  group |-> SubSeq(line, p, q + Len(dot_png) - 1)]

\* lines 16, 25: pbibs.match(line) for '^.*bibliography\{(.*)\}.*$': the
\* group starts after the last "bibliography{" that has a "}" after it and
\* runs to the last "}" of the line
pbibs(line) ==
    LET ends(p) == {q \in (p + Len(bibliography_brace))..Len(line) :
                       line[q] = "}"}
        starts == {p \in DOMAIN line :
                       occurs_at(line, bibliography_brace, p) /\ ends(p) # {}}
    IN  IF starts = {} THEN [matched |-> FALSE, group |-> <<>>]
        ELSE LET p == Greatest(starts)
                 q == Greatest(ends(p))
             IN  [matched |-> TRUE,
                  group |-> SubSeq(line, p + Len(bibliography_brace), q - 1)]

\* line 28: s.split(sep)
RECURSIVE split(_, _)
split(s, sep) ==
    IF \A i \in DOMAIN s : s[i] # sep THEN <<s>>
    ELSE <<split_first(s, sep)>> \o split(after_first(s, sep), sep)

\* line 30: s.strip()
RECURSIVE strip(_)
strip(s) ==
    IF s = <<>> THEN s
    ELSE IF s[1] = " " THEN strip(Tail(s))
    ELSE IF s[Len(s)] = " " THEN strip(SubSeq(s, 1, Len(s) - 1))
    ELSE s

\* line 31: os.path.splitext(p)[1]: from the last dot of the last
\* component, unless only dots precede it there
splitext_ext(p) ==
    LET seps == {i \in DOMAIN p : p[i] = "/"}
        sepIndex == IF seps = {} THEN 0 ELSE Greatest(seps)
        dots == {i \in DOMAIN p : p[i] = "."}
        dotIndex == IF dots = {} THEN 0 ELSE Greatest(dots)
    IN  IF /\ dotIndex > sepIndex
           /\ \E i \in (sepIndex + 1)..(dotIndex - 1) : p[i] # "."
        THEN SubSeq(p, dotIndex, Len(p))
        ELSE <<>>

\* lines 30-33: the file name of one entry of the list
bib_file(bib_name) ==
    LET stripped == strip(bib_name)
    IN  IF splitext_ext(stripped) # dot_bib THEN stripped \o dot_bib
        ELSE stripped

\* lines 22, 34: "%s: %s" % (args.dep, name)
dependency_line(name) == dep \o <<":", " ">> \o name

\* lines 20-22
figure_output(line) ==
    IF pfigs(line).matched THEN <<dependency_line(pfigs(line).group)>>
    ELSE <<>>

\* lines 25-34
bibliography_output(line) ==
    IF pbibs(line).matched
    THEN LET bib_names == split(pbibs(line).group, ",")
         IN  [k \in DOMAIN bib_names |->
                 dependency_line(bib_file(bib_names[k]))]
    ELSE <<>>

\* lines 18-34: one pass of the loop over the lines
DepsLine ==
    /\ pc = "start"
    /\ line_idx <= Len(stdin)
    /\ LET line == line_text(stdin[line_idx])
       IN  stdout' = stdout \o figure_output(line) \o bibliography_output(line)
    /\ line_idx' = line_idx + 1
    /\ UNCHANGED <<pc, log, stdin, calcVars, alignVars, summaryVars, fixVars>>

\* the lines are exhausted and the script ends
DepsDone ==
    /\ pc = "start"
    /\ line_idx > Len(stdin)
    /\ pc' = "done"
    /\ UNCHANGED <<log, depsVars, calcVars, alignVars, summaryVars, fixVars>>

InitDeps ==
    /\ pc = "start"
    /\ log = {}
    /\ stdin \in SeqsUpTo(DepsLines, MaxLines)
    /\ stdout = <<>>
    /\ line_idx = 1
    /\ CalcIdle
    /\ AlignIdle
    /\ SummaryIdle
    /\ FixIdle

NextDeps ==
    \/ DepsLine
    \/ DepsDone

SpecDeps == InitDeps /\ [][NextDeps]_vars

---------------------------------------------------------------------------
(* Claims about calculate-joint-displacements.py (SpecCalc). *)

SingleUser == Cardinality({raw_kinect_file[i].userId : i \in DOMAIN raw_kinect_file}) = 1
MultiUser == Cardinality({raw_kinect_file[i].userId : i \in DOMAIN raw_kinect_file}) > 1

\* v is the fixed point value of sqrt(dx^2 + dy^2 + dz^2) between points a and b
IsDistance(v, a, b) ==
    LET d2 == (a[1] - b[1]) * (a[1] - b[1]) + (a[2] - b[2]) * (a[2] - b[2])
              + (a[3] - b[3]) * (a[3] - b[3])
    IN  /\ v >= 0
        /\ v * v <= d2 * Scale * Scale
        /\ (v + 1) * (v + 1) > d2 * Scale * Scale

\* C1: for an input file with a single user id, every sample at position
\* i >= 1 that the loop has passed carries, for each of the 15 joints, the
\* Euclidean distance between that joint's position in sample i-1 and in
\* sample i of the input; a move of the head from (0,0,0) to (3,4,0) gives 5.
C1_DisplacementIsDistance ==
    (pc \in {"loop", "done"} /\ SingleUser) =>
        /\ Len(joint_df) = Len(raw_kinect_file)
        /\ \A i \in 2..sample_idx : \A joint \in JointNames :
              /\ IsDistance(joint_df[i].disp[joint],
                            raw_kinect_file[i - 1].pos[joint],
                            raw_kinect_file[i].pos[joint])
              /\ (/\ raw_kinect_file[i - 1].pos[joint] = <<0, 0, 0>>
                  /\ raw_kinect_file[i].pos[joint] = <<3, 4, 0>>)
                 => joint_df[i].disp[joint] = 5 * Scale

C1_Witness ==
    /\ pc = "done"
    /\ SingleUser
    /\ Len(raw_kinect_file) >= 3
    /\ raw_kinect_file[1].pos["jointHead"] = <<0, 0, 0>>
    /\ raw_kinect_file[2].pos["jointHead"] = <<3, 4, 0>>
    /\ joint_df[2].disp["jointHead"] = 5 * Scale
    /\ joint_df[3].disp["jointTorso"] > 0
    /\ joint_df[3].disp["jointTorso"] # joint_df[3].disp["jointHead"]

\* C2: in the output, the first sample of the file has a missing value in
\* every one of the 15 <joint>Displacement columns, for any input file
\* (files that went through the multi-user fallback included).
C2_FirstSampleMissing ==
    (pc = "done" /\ joint_df # <<>>) =>
        \A joint \in JointNames : isnull(joint_df[1].disp[joint])

\* the user id and position columns of a dataframe, in row order
InputColumns(d) == [i \in DOMAIN d |-> [userId |-> d[i].userId, pos |-> d[i].pos]]

\* C8: when the input holds more than one distinct user id, a message is
\* printed and the output consists of exactly the input rows tagged with
\* user id 1, in their original order: no other row is kept, none is added.
C8_FallbackKeepsDefaultUserRows ==
    (pc = "done" /\ MultiUser) =>
        /\ [msg |-> "multiple user ids detected"] \in log
        /\ InputColumns(joint_df)
             = SelectSeq(raw_kinect_file, LAMBDA r : r.userId = DefaultUserId)

\* the rows the fallback retains, in file order
Retained == SelectSeq(raw_kinect_file, LAMBDA r : r.userId = DefaultUserId)

\* C19: after the multi-user fallback the output holds the retained samples
\* and no other row, and each retained sample at position i >= 1 carries, on
\* its own row, the displacement between the retained samples i-1 and i.
C19_FallbackDisplacementOnOwnRow ==
    (pc = "done" /\ MultiUser) =>
        /\ Len(joint_df) = Len(Retained)
        /\ \A i \in 2..Len(Retained) : \A joint \in JointNames :
              /\ joint_df[i].pos = Retained[i].pos
              /\ IsDistance(joint_df[i].disp[joint],
                            Retained[i - 1].pos[joint],
                            Retained[i].pos[joint])

---------------------------------------------------------------------------
(* Claims about extract-response-joint-displacements.py (SpecAlign). *)

\* the latest pass of the loop aligned row row_idx - 1 (a pass that fails
\* leaves row_idx alone and leaves the loop)
LastAligned == pc \in {"loop", "done"} /\ row_idx > 1
LastResponse == response_df[row_idx - 1]

\* C3 as stated: the window start is response_time - 2.5 s when reactionTime
\* is missing and response_time - reactionTime - 1.0 s when it is recorded,
\* and for the same response_time the recorded start always differs from
\* the missing-reaction-time start.
C3_StartsAlwaysDiffer ==
    LastAligned =>
        LET r == LastResponse
        IN  IF isnull(r.reactionTime)
            THEN start_time = r.utcTime - TimeoutWindow
            ELSE /\ start_time = r.utcTime - r.reactionTime - CueDelay
                 /\ start_time # r.utcTime - TimeoutWindow

\* C3 as amended: the window start is response_time - 2.5 s when
\* reactionTime is missing and response_time - reactionTime - 1.0 s when it
\* is recorded; for the same response_time the two differ exactly when the
\* recorded reactionTime is not 1.5 s.
C3_WindowStart ==
    LastAligned =>
        LET r == LastResponse
        IN  IF isnull(r.reactionTime)
            THEN start_time = r.utcTime - TimeoutWindow
            ELSE /\ start_time = r.utcTime - r.reactionTime - CueDelay
                 /\ (start_time = r.utcTime - TimeoutWindow)
                       <=> (r.reactionTime = 3)

C3_Witness ==
    /\ LastAligned
    /\ row_idx = 3
    /\ response_df[1].utcTime = response_df[2].utcTime
    /\ response_df[1].participant = response_df[2].participant
    /\ response_df[1].reactionTime = 1
    /\ isnull(response_df[2].reactionTime)
    /\ start_time = response_df[2].utcTime - 5
    /\ window_df # <<>>

\* the samples of a joint file whose time stamp t (ms / 1000 seconds, here
\* compared in ms) satisfies lo <= t <= hi, in file order
SamplesBetween(file, lo, hi) ==
    SelectSeq(JointFileRows(file),
              LAMBDA x : /\ lo * MillisPerTick <= x.utcMillisecondsSinceEpoch
                         /\ x.utcMillisecondsSinceEpoch <= hi * MillisPerTick)

Samples(d) ==
    [i \in DOMAIN d |->
        [utcMillisecondsSinceEpoch |-> d[i].utcMillisecondsSinceEpoch,
         pos |-> d[i].pos]]

\* C4: for every aligned response row, the samples selected are exactly the
\* samples of a joint file of that row's participant whose utcTime t
\* satisfies start_time <= t <= response_time, both bounds inclusive.
C4_ClosedWindow ==
    LastAligned =>
        /\ data_file \in JointFiles
        /\ data_file.participant = LastResponse.participant
        /\ Samples(window_df)
             = SamplesBetween(data_file, start_time, LastResponse.utcTime)

C4_Witness ==
    /\ LastAligned
    /\ Len(window_df) >= 2
    /\ Len(window_df) < SamplesPerFile
    /\ window_df[1].utcTime = start_time
    /\ window_df[Len(window_df)].utcTime = LastResponse.utcTime

\* the fixed point distance between two points: its whole part w first
\* (the coordinates of the model lie within 0..9), then the value itself
DistanceOf(a, b) ==
    LET d2 == (a[1] - b[1]) * (a[1] - b[1]) + (a[2] - b[2]) * (a[2] - b[2])
              + (a[3] - b[3]) * (a[3] - b[3])
        w == CHOOSE n \in 0..16 : n * n <= d2 /\ d2 < (n + 1) * (n + 1)
    IN  CHOOSE v \in (w * Scale)..((w + 1) * Scale) : IsDistance(v, a, b)

\* the n-1 distances a joint moved between consecutive samples of a window
ConsecutiveDistances(window, joint) ==
    [i \in 1..(Len(window) - 1) |->
        DistanceOf(window[i].pos[joint], window[i + 1].pos[joint])]

\* m is the fixed point mean of the non-empty series s
IsMean(m, s) == m * Len(s) <= SeqSum(s) /\ SeqSum(s) < (m + 1) * Len(s)

\* C5: when the window of the row just aligned holds n >= 2 samples, the
\* jointHeadDisplacement and jointTorsoDisplacement attached to the row are
\* the mean of the n-1 distances between time-consecutive samples of the
\* window, for the head and the torso.
C5_MeanOfConsecutiveDistances ==
    (LastAligned /\ Len(window_df) >= 2) =>
        /\ IsMean(LastResponse.jointHeadDisplacement,
                  ConsecutiveDistances(window_df, "jointHead"))
        /\ IsMean(LastResponse.jointTorsoDisplacement,
                  ConsecutiveDistances(window_df, "jointTorso"))

C5_Witness ==
    /\ LastAligned
    /\ Len(window_df) >= 4
    /\ LET d == ConsecutiveDistances(window_df, "jointHead")
       IN  /\ d[1] # d[2]
           /\ LastResponse.jointHeadDisplacement > 0
           /\ LastResponse.jointHeadDisplacement # SeqSum(d)
           /\ LastResponse.jointHeadDisplacement # LastResponse.jointTorsoDisplacement

\* the window start of a response row, by the rule of C3
ExpectedStart(r) ==
    IF isnull(r.reactionTime) THEN r.utcTime - TimeoutWindow
    ELSE r.utcTime - r.reactionTime - CueDelay

\* the samples of a response's own window, in a given file of its participant
OwnWindow(r, file) == SamplesBetween(file, ExpectedStart(r), r.utcTime)

FilesOf(participant) == {f \in JointFiles : f.participant = participant}

\* C6: a response with zero matching joint samples in its window is absent
\* from the final output of the alignment pass.
C6_EmptyWindowRowsDropped ==
    pc = "done" =>
        \A i \in DOMAIN response_df :
            \E f \in FilesOf(response_df[i].participant) :
                OwnWindow(response_df[i], f) # <<>>

\* C7: when the joint file of a participant cannot be uniquely located, the
\* pass never ends in the unhandled IndexError and never goes on with one
\* of the matching files.
C7_NoArbitraryFileNoFailure ==
    /\ pc # "IndexError"
    /\ \A p \in ResponseParticipants :
          FileNotUnique(p) \in log =>
              ~(joint_df_bound /\ current_participant = p /\ data_file.participant = p)

\* C9: after the full pass, every response row whose own window held
\* samples to aggregate (two or more, in the one file of its participant)
\* carries the aggregate of its own participant and its own window.
C9_OwnAggregateAtEnd ==
    pc = "done" =>
        \A i \in DOMAIN response_df :
            LET r == response_df[i]
                files == FilesOf(r.participant)
            IN  Cardinality(files) = 1 =>
                    LET w == OwnWindow(r, CHOOSE f \in files : TRUE)
                    IN  Len(w) >= 2 =>
                          /\ IsMean(r.jointHeadDisplacement,
                                    ConsecutiveDistances(w, "jointHead"))
                          /\ IsMean(r.jointTorsoDisplacement,
                                    ConsecutiveDistances(w, "jointTorso"))

\* C18: a response whose reactionTime is 0 is treated like one whose
\* reactionTime is missing: its window starts at response_time - 2.5 s.
C18_ZeroReactionTimeLikeMissing ==
    (LastAligned /\ ~isnull(LastResponse.reactionTime)
                 /\ LastResponse.reactionTime = 0) =>
        start_time = LastResponse.utcTime - TimeoutWindow

\* C20: whenever a response row is aligned the joint data in use has been
\* loaded and is the data of the row's participant, for every order of the
\* rows and every participant id, 0 included: no pass comes to line 149
\* with joint_df unbound.
C20_JointDataOfRowParticipant ==
    /\ pc # "NameError"
    /\ LastAligned =>
          /\ joint_df_bound
          /\ current_participant = LastResponse.participant
          /\ data_file.participant = LastResponse.participant

\* C21: a response whose window holds exactly one joint sample is handled
\* like a response with none: pairing each sample with its successor leaves
\* no pair, the 'no kinect data found' message is printed, and the pass
\* changes no row of the responses, so that the row's jointHeadDisplacement
\* and jointTorsoDisplacement keep the value they had before the pass.
C21_OneSampleLikeNone ==
    [][ (pc = "loop" /\ row_idx' = row_idx + 1) =>
          LET r == response_df[row_idx]
              own == SamplesBetween(data_file', ExpectedStart(r), r.utcTime)
          IN  Len(own) <= 1 =>
                /\ displacement_df' = <<>>
                /\ NoKinectData(r) \in log'
                /\ response_df' = response_df ]_vars

\* a row was aligned on a window of one sample, after a row that got an
\* aggregate of its own
C21_Witness ==
    /\ LastAligned
    /\ row_idx = 3
    /\ Len(window_df) = 1
    /\ window_df[1].utcTime >= start_time
    /\ window_df[1].utcTime < LastResponse.utcTime
    /\ displacement_df = <<>>
    /\ NoKinectData(LastResponse) \in log
    /\ response_df[1].jointHeadDisplacement > 0
    /\ LastResponse.jointHeadDisplacement = 0

---------------------------------------------------------------------------
(* Claims about extract-task-switching-skeleton-summary.py (SpecSummary). *)

\* the skeleton files of the directory: the ones the loop summarises
ProcessedFiles == {c \in Catalogue : c.name \in DOMAIN dir_files /\ c.skeleton}

\* C10 as stated: the summary holds one row per participant, no two summary
\* rows have the same subjectId, for any set of matched files.
C10_NoTwoRowsSameSubject ==
    pc = "done" =>
        \A j, k \in DOMAIN df : j # k => df[j].subjectId # df[k].subjectId

\* C10 as amended: the summary holds exactly one row per summarised file
\* (matched by the pattern, no 'trials' in its path); the rows with a given
\* subjectId are as many as the summarised files of that participant, so
\* two rows share a subjectId exactly when a participant has two such files.
C10_OneRowPerFile ==
    pc = "done" =>
        /\ Len(df) = Cardinality(ProcessedFiles)
        /\ \A c \in ProcessedFiles :
              Cardinality({k \in DOMAIN df : df[k].subjectId = c.participant})
                = Cardinality({o \in ProcessedFiles : o.participant = c.participant})
        /\ \A k \in DOMAIN df :
              \E c \in ProcessedFiles : df[k].subjectId = c.participant

C10_Witness ==
    /\ pc = "done"
    /\ Len(df) = 4
    /\ Len(raw_data_file_list) = 5
    /\ df[1].subjectId = 1
    /\ df[2].subjectId = 1
    /\ df[3].subjectId = 2
    /\ df[4].subjectId = 10

\* the path glob gives a file of the catalogue, and the entry of a path
PathOf(c) == data_dir \o <<"/">> \o c.name
EntryOf(path) == CHOOSE c \in Catalogue : PathOf(c) = path

\* the paths the loop has passed and summarised, in the order it met them
SummarisedSoFar ==
    SelectSeq(SubSeq(raw_data_file_list, 1, file_idx - 1),
              LAMBDA path : EntryOf(path).skeleton)

\* C11: the summary rows are appended in lexicographic order of the matched
\* file names, the files whose path contains 'trials' skipped, so the
\* subjectId column is in non-decreasing numeric order.
C11_RowsInFileNameOrder ==
    pc \in {"loop", "done"} =>
        /\ \A i, j \in DOMAIN raw_data_file_list :
              i < j => str_less(raw_data_file_list[i], raw_data_file_list[j])
        /\ Len(df) = Len(SummarisedSoFar)
        /\ \A k \in DOMAIN df :
              df[k].subjectId = EntryOf(SummarisedSoFar[k]).participant
        /\ \A k \in 1..(Len(df) - 1) : df[k].subjectId <= df[k + 1].subjectId

C11_Witness ==
    /\ pc = "done"
    /\ Len(raw_data_file_list) = 5
    /\ ~EntryOf(raw_data_file_list[4]).skeleton
    /\ Len(df) = 4
    /\ df[2].subjectId < df[3].subjectId
    /\ df[3].subjectId = 2
    /\ df[4].subjectId = 10

\* the samples of the file behind the k-th summary row
RowSamples(k) == SummaryRows(dir_files[basename(SummarisedSoFar[k])])

\* a <= b as floating point compares: false when either is NaN
FloatLeq(a, b) == ~isnull(a) /\ ~isnull(b) /\ a <= b

\* lo, hi and m are the least, the greatest and the mean of the distances
\* between the consecutive samples
IsMinMaxMean(lo, hi, m, samples, joint) ==
    LET d == ConsecutiveDistances(samples, joint)
    IN  /\ \E i \in DOMAIN d : d[i] = lo
        /\ \E i \in DOMAIN d : d[i] = hi
        /\ \A i \in DOMAIN d : lo <= d[i] /\ d[i] <= hi
        /\ IsMean(m, d)
        /\ FloatLeq(lo, m)
        /\ FloatLeq(m, hi)

\* C12: every file the loop comes to, of n samples, is summarised, and the
\* minimum, maximum and mean Head and Torso displacement of its row are the
\* min, max and mean of the n-1 distances between its consecutive samples,
\* so that min <= mean <= max.
C12_MinMaxMeanOfDisplacements ==
    /\ pc # "ValueError"
    /\ pc \in {"loop", "done"} =>
          \A k \in DOMAIN df :
              /\ IsMinMaxMean(df[k].minHeadDisplacement,
                              df[k].maxHeadDisplacement,
                              df[k].meanHeadDisplacement,
                              RowSamples(k), "jointHead")
              /\ IsMinMaxMean(df[k].minTorsoDisplacement,
                              df[k].maxTorsoDisplacement,
                              df[k].meanTorsoDisplacement,
                              RowSamples(k), "jointTorso")

\* the same for the files of two samples or more, which is what the code does
C12_HoldsFromTwoSamples ==
    pc \in {"loop", "done"} =>
        \A k \in DOMAIN df :
            Len(RowSamples(k)) >= 2 =>
              /\ IsMinMaxMean(df[k].minHeadDisplacement,
                              df[k].maxHeadDisplacement,
                              df[k].meanHeadDisplacement,
                              RowSamples(k), "jointHead")
              /\ IsMinMaxMean(df[k].minTorsoDisplacement,
                              df[k].maxTorsoDisplacement,
                              df[k].meanTorsoDisplacement,
                              RowSamples(k), "jointTorso")

\* C13: the samples of a summary row is the number of rows of its file, its
\* startTime the timestamp of the first row of the file and its endTime the
\* timestamp of the last row.
C13_SamplesStartEnd ==
    pc \in {"loop", "done"} =>
        \A k \in DOMAIN df :
            LET rows == RowSamples(k)
            IN  /\ df[k].samples = Len(rows)
                /\ \A i \in DOMAIN rows :
                      /\ i = 1 =>
                           df[k].startTime = rows[i].utcMillisecondsSinceEpoch
                      /\ i = Len(rows) =>
                           df[k].endTime = rows[i].utcMillisecondsSinceEpoch

C13_Witness ==
    /\ pc = "done"
    /\ Len(df) >= 2
    /\ df[1].samples = 3
    /\ df[2].samples = 4
    /\ df[2].startTime < df[2].endTime

---------------------------------------------------------------------------
(* Claims about the participant id of a path (SpecParse). *)

\* the case the path in hand was drawn as
ParsedCase == CHOOSE c \in ParseCases : raw_data_file_list = <<ParsePath(c)>>

\* the number four zero-padded decimal digits write
PaddedValue(digits) ==
    1000 * digits[1] + 100 * digits[2] + 10 * digits[3] + digits[4]

\* C14: the participant id of a path is the integer value of the zero-padded
\* digits before the first underscore of its base name, whatever the
\* directory part; 0007_something-joint-positions-displacements.csv gives 7.
C14_IdFromBaseName ==
    pc # "parse" =>
        /\ pc = "parsed"
        /\ df = <<[subjectId |-> PaddedValue(ParsedCase.digits)]>>

C14_Witness ==
    /\ pc = "parsed"
    /\ ParsedCase.dir = <<"1", "2", "_", "3", "/", "4", "5", "_", "x", "/">>
    /\ ParsedCase.digits = <<0, 0, 0, 7>>
    /\ Len(ParsedCase.tail) > 40
    /\ df[1].subjectId = 7

---------------------------------------------------------------------------
(* Claims about fix-utctimestamps.py (SpecFix). *)

MillisHeader ==
    \E j \in DOMAIN input_csv.header :
        input_csv.header[j] = "utcMillisecondsSinceEpoch"

\* number a is 1000 times number b, a missing value staying missing
IsThousandTimes(a, b) ==
    IF is_missing(b) THEN is_missing(a)
    ELSE /\ ~is_missing(a)
         /\ \E n \in 0..3 :
               /\ Len(b.frac) = n + Len(a.frac)
               /\ SubSeq(b.frac, n + 1, Len(b.frac)) = a.frac
               /\ n = 3 \/ a.frac = <<>>
               /\ a.whole = 1000 * b.whole
                     + int([i \in 1..3 |->
                              IF i <= n THEN Digits[b.frac[i] + 1] ELSE "0"])

\* C15: fix-utctimestamps rewrites its input file in place: after the run
\* of a file with the column utcMillisecondsSinceEpoch the file has the same
\* rows in the same order, that column is named utcMicrosecondsSinceEpoch
\* and each of its values is 1000 times the value it had, and every other
\* column has its name and holds the values it held.
C15_RewrittenInPlace ==
    MillisHeader =>
      /\ pc \in {"start", "loaded", "saved"}
      /\ pc # "saved" => csv_file = input_csv
      /\ pc = "saved" =>
          /\ Len(csv_file.rows) = Len(input_csv.rows)
          /\ Len(csv_file.header) = Len(input_csv.header)
          /\ \A j \in DOMAIN input_csv.header :
                IF input_csv.header[j] = "utcMillisecondsSinceEpoch"
                THEN /\ csv_file.header[j] = "utcMicrosecondsSinceEpoch"
                     /\ \A i \in DOMAIN input_csv.rows :
                           IsThousandTimes(cell_value(csv_file.rows[i][j]),
                                           cell_value(input_csv.rows[i][j]))
                ELSE /\ csv_file.header[j] = input_csv.header[j]
                     /\ \A i \in DOMAIN input_csv.rows :
                           cell_value(csv_file.rows[i][j])
                             = cell_value(input_csv.rows[i][j])

C15_Witness ==
    /\ pc = "saved"
    /\ MillisHeader
    /\ input_csv.rows = << << <<"2">>, <<"5">>, <<"0", ".", "5", "0">> >>,
                           << <<"1">>, <<"1", "2">>, <<"2">> >> >>
    /\ csv_file.rows = << << <<"2">>, <<"5", "0", "0", "0">>,
                             <<"0", ".", "5">> >>,
                          << <<"1">>, <<"1", "2", "0", "0", "0">>,
                             <<"2", ".", "0">> >> >>

---------------------------------------------------------------------------
(* Claims about deps.py (SpecDeps). *)

ends_with(s, suffix) ==
    Len(s) >= Len(suffix) /\ occurs_at(s, suffix, Len(s) - Len(suffix) + 1)

\* the dependency lines printed for figures, and for bibliography files
FigureLines == SelectSeq(stdout, LAMBDA l : ends_with(l, dot_png))
BibliographyLines == SelectSeq(stdout, LAMBDA l : ends_with(l, dot_bib))

\* what the pieces of the lines read so far hold, in input order
RECURSIVE PiecesRead(_)
PiecesRead(n) ==
    IF n = 0 THEN <<>> ELSE PiecesRead(n - 1) \o stdin[n]

RECURSIVE FiguresOf(_)
FiguresOf(pieces) ==
    IF pieces = <<>> THEN <<>>
    ELSE DepsPieces[Head(pieces)].figures \o FiguresOf(Tail(pieces))

RECURSIVE NamesOf(_)
NamesOf(pieces) ==
    IF pieces = <<>> THEN <<>>
    ELSE DepsPieces[Head(pieces)].names \o NamesOf(Tail(pieces))

\* the name with .bib after it unless it ends in .bib
WithBib(name) == IF ends_with(name, dot_bib) THEN name ELSE name \o dot_bib

\* C16: for every input line that contains bibliography{n1,...,nk} one
\* dependency line '<dep>: <name>' is printed per name of the list, in list
\* order, the name stripped and with '.bib' appended exactly when that is
\* not its extension already.
C16_OneLinePerBibliographyName ==
    LET names == NamesOf(PiecesRead(line_idx - 1))
    IN  BibliographyLines
          = [k \in DOMAIN names |-> dep \o <<":", " ">> \o WithBib(names[k])]

\* C17: for every figure reference figures/<path>.png of the text read one
\* dependency line '<dep>: figures/<path>.png' naming exactly that
\* reference is printed, in input order, also when one line holds more than
\* one reference.
C17_OneLinePerFigureReference ==
    LET figures == FiguresOf(PiecesRead(line_idx - 1))
    IN  FigureLines
          = [k \in DOMAIN figures |-> dep \o <<":", " ">> \o figures[k]]

===========================================================================
